---- MODULE Spec2Model ----
(***************************************************************************)
(* Model of the sync pass of the Aiven Monitor Manager for OpenSearch      *)
(* (manager/manager.py, `--sync`) together with the local store            *)
(* (module/localstorage.py), the remote store client                       *)
(* (module/opensearchclient.py), the comparator (module/comparator.py)     *)
(* and the confirmation gate (module/helpers.py).                          *)
(*                                                                         *)
(* A monitor record is [id, version, name, body, lut]:                     *)
(*   id      the "_id" key ("" in a hand-written file of a new monitor),   *)
(*   version the "_version" key,                                           *)
(*   name    monitor["monitor"]["name"], a sequence of characters,         *)
(*   body    the rest of monitor["monitor"] that is not bookkeeping,       *)
(*   lut     monitor["monitor"]["last_update_time"].                       *)
(* The local layout `disk` maps a directory name to the record held by its *)
(* monitor.json; the remote service `server` maps an identity to the       *)
(* record it holds.                                                        *)
(***************************************************************************)
EXTENDS Integers, Sequences, FiniteSets, TLC

\* ------------------------------------------------------------------ bounds
\* Number of hand edits (of the remote service or of the local files) made
\* before the first pass.
MaxEdits == 2
\* Number of runs of the tool that follow each other.
MaxPasses == 2

\* ------------------------------------------------------------ value domains
NA == <<"A">>
NB == <<"B">>
NU == <<"A", ":">>
Names == {NA, NB, NU}
Bodies == {"x", "y"}
Answers == {"yes", "no", "all"}

\* The value OpenSearch stamps on last_update_time when it writes a monitor:
\* some time stamp other than the 0 the client normalises it to.
ServerTime == 1

EmptyMap == [x \in {} |-> x]
Put(f, k, v) == [x \in (DOMAIN f) \cup {k} |-> IF x = k THEN v ELSE f[x]]
Del(f, k) == [x \in (DOMAIN f) \ {k} |-> f[x]]

\* All enumeration orders of a finite set (os.listdir and dict orders).
Orders(S) ==
    {s \in [1..Cardinality(S) -> S] : \A i, j \in 1..Cardinality(S) : s[i] = s[j] => i = j}

\* ------------------------------------------------------------ helpers.py
unsafe_chars == {"\\", "/", ":", "*", "?", "\"", "<", ">", "|"}

\* helper.pathsafe
pathsafe(s) ==
    IF Len(s) > 0 /\ s[1] = " "
    THEN FALSE
    ELSE \A i \in 1..Len(s) : s[i] \notin unsafe_chars

\* helper.prepare_for_create: the payload of a create is monitor["monitor"]
\* without the bookkeeping keys; "unsafe" when the name fails pathsafe
\* (helper.error).
prepare_for_create(monitor) ==
    IF ~pathsafe(monitor.name)
    THEN [ok |-> FALSE, content |-> [name |-> monitor.name, body |-> monitor.body]]
    ELSE [ok |-> TRUE, content |-> [name |-> monitor.name, body |-> monitor.body]]

\* ------------------------------------------------------------- variables
VARIABLES
    server,                \* the monitors held by the OpenSearch instance
    disk,                  \* the instance directory: directory name -> monitor.json
    nextId,                \* number of the next identity the server assigns
    edits,                 \* hand edits made so far
    dryrun,                \* arg.dryrun
    force,                 \* arg.force
    pc,                    \* position of the run in main
    passNo,                \* runs started so far
    local_monitors,        \* local.monitors
    remote_monitors,       \* remote.monitors
    cleanup,               \* local.cleanup
    confirm_all,           \* helper.confirm_all: the events latched by "all"
    todo,                  \* items the current loop has still to visit
    cleanCall,             \* which call of clean_folders is running (1 or 2)
    created_new,           \* main: created_new
    skipped,               \* main: skipped
    version_sync_mismatch, \* compare.version_sync_mismatch
    monitor_diff,          \* compare.monitor_diff
    abortReason,           \* which helper.error / exception ended the run
    gates,                 \* history: confirmations of this run
    adopted,               \* history: identities stored by "Store new remote monitors"
    created,               \* history: local keys whose remote create was issued
    pulled,                \* history: identities whose version pull was stored
    pushed,                \* history: identities whose update was sent
    disk0,                 \* history: the layout when this run started
    server0,               \* history: the server when this run started
    prev                   \* history: summary of the previous run

vars == <<server, disk, nextId, edits, dryrun, force, pc, passNo, local_monitors,
          remote_monitors, cleanup, confirm_all, todo, cleanCall, created_new, skipped,
          version_sync_mismatch, monitor_diff, abortReason, gates, adopted, created,
          pulled, pushed, disk0, server0, prev>>

stores == <<server, disk, nextId>>
flags == <<dryrun, force>>
runState == <<local_monitors, remote_monitors, cleanup, confirm_all, todo, cleanCall,
              created_new, skipped, version_sync_mismatch, monitor_diff, abortReason>>
history == <<gates, adopted, created, pulled, pushed, disk0, server0, prev>>

\* The identity the server assigns to its k-th monitor.
ServerId(k) == "m" \o ToString(k)

\* A record as the server stores it.
ServerRecord(id, version, name, body) ==
    [id |-> id, version |-> version, name |-> name, body |-> body, lut |-> ServerTime]

\* The client resets last_update_time to 0 on everything it reads from the
\* server (load_monitors, get_monitor_contents, create_monitor).
normalize(monitor) == [monitor EXCEPT !.lut = 0]

\* ------------------------------------------------------- localstorage.py
\* Mutant: store_monitor without its dry-run test.
store_monitor_always(d, monitor) == Put(d, monitor.name, monitor)

\* ManageLocalMonitors.store_monitor: write monitor.json into the directory
\* named after the monitor, creating it when missing.
store_monitor(d, monitor) ==
    IF dryrun THEN d ELSE Put(d, monitor.name, monitor)

\* ManageLocalMonitors.remove_monitor: remove the files of the directory
\* named monitor_name (each tolerated when missing), then rmdir it; rmdir of
\* a missing directory raises FileNotFoundError, which nothing catches.
remove_monitor(d, monitor_name) ==
    IF dryrun THEN [ok |-> TRUE, disk |-> d]
    ELSE IF monitor_name \in DOMAIN d
         THEN [ok |-> TRUE, disk |-> Del(d, monitor_name)]
         ELSE [ok |-> FALSE, disk |-> d]

\* The key load_monitors gives a file whose "_id" is empty: "create" and ten
\* random letters.  The letters are taken to differ from directory to
\* directory, so the key is written as a function of the directory.
PlaceholderId(dir) ==
    CASE dir = NA -> "createA"
      [] dir = NB -> "createB"
      [] OTHER -> "createU"

\* ManageLocalMonitors.load_monitors, the loop over the directories in the
\* order os.listdir gave them.  A directory removed earlier in the loop has
\* no monitor.json any more (FileNotFoundError: continue).
RECURSIVE LoadLoop(_, _, _)
LoadLoop(order, d, all_monitors) ==
    IF order = << >>
    THEN [ok |-> TRUE, disk |-> d, monitors |-> all_monitors]
    ELSE LET monitor_dir == Head(order) IN
         IF monitor_dir \notin DOMAIN d
         THEN LoadLoop(Tail(order), d, all_monitors)
         ELSE LET monitor == d[monitor_dir]
                  monitor_id == IF monitor.id # "" THEN monitor.id
                                ELSE PlaceholderId(monitor_dir)
              IN  IF monitor_id \in DOMAIN all_monitors
                  THEN IF monitor.version > all_monitors[monitor_id].version
                       THEN LET r == remove_monitor(d, all_monitors[monitor_id].name) IN
                            IF r.ok
                            THEN LoadLoop(Tail(order), r.disk,
                                          Put(all_monitors, monitor_id, monitor))
                            ELSE [ok |-> FALSE, disk |-> d, monitors |-> all_monitors]
                       ELSE LET r == remove_monitor(d, monitor.name) IN
                            IF r.ok
                            THEN LoadLoop(Tail(order), r.disk, all_monitors)
                            ELSE [ok |-> FALSE, disk |-> d, monitors |-> all_monitors]
                  ELSE LoadLoop(Tail(order), d, Put(all_monitors, monitor_id, monitor))

\* ManageLocalMonitors.load_monitors: every outcome some listing order gives.
load_monitors(d) == {LoadLoop(order, d, EmptyMap) : order \in Orders(DOMAIN d)}

\* ---------------------------------------------------- opensearchclient.py
\* ManageRemoteMonitors.load_monitors: every hit of the search is stored
\* under its identity with last_update_time reset; self.monitors is not
\* emptied first.
remote_load(monitors, srv) ==
    [id \in (DOMAIN monitors) \cup (DOMAIN srv) |->
        IF id \in DOMAIN srv THEN normalize(srv[id]) ELSE monitors[id]]

\* ManageRemoteMonitors.create_monitor outside a dry run: POST the payload;
\* the server stores it under a new identity with version 1.
server_create(srv, k, content) ==
    Put(srv, ServerId(k), ServerRecord(ServerId(k), 1, content.name, content.body))

\* ManageRemoteMonitors.update_monitor outside a dry run: PUT
\* monitor_contents["monitor"]; the server replaces the monitor's source and
\* raises its version.
server_update(srv, monitor_id, monitor_contents) ==
    Put(srv, monitor_id,
        ServerRecord(monitor_id, srv[monitor_id].version + 1,
                     monitor_contents.name, monitor_contents.body))

\* ----------------------------------------------------------- comparator.py
\* DeepDiff of two monitor["monitor"] values: the keys whose values differ.
DeepDiff(remote_contents, local_contents) ==
    {k \in {"name", "body", "lut"} : remote_contents[k] # local_contents[k]}

\* Comparator.compare_monitors: local_monitors is walked and every key is
\* looked up in remote_monitors (KeyError when missing).
compare_monitors(local, remote) ==
    IF \E monitor_id \in DOMAIN local : monitor_id \notin DOMAIN remote
    THEN [ok |-> FALSE, diff |-> EmptyMap]
    ELSE [ok |-> TRUE,
          diff |-> [monitor_id \in {i \in DOMAIN local : DeepDiff(remote[i], local[i]) # {}}
                      |-> DeepDiff(remote[monitor_id], local[monitor_id])]]

\* Mutant: equal versions count as a gap too.
IsOlderOrEqual(local_version, remote_version) ==
    local_version.version <= remote_version.version

\* The comparison check_version_state makes for one identity.
IsOlder(local_version, remote_version) == local_version.version < remote_version.version

\* Comparator.check_version_state: remote_monitors is walked and every key is
\* looked up in local_monitors (KeyError when missing).
check_version_state(local, remote) ==
    IF \E id \in DOMAIN remote : id \notin DOMAIN local
    THEN [ok |-> FALSE, mismatch |-> EmptyMap]
    ELSE [ok |-> TRUE,
          mismatch |-> [id \in {i \in DOMAIN remote : IsOlder(local[i], remote[i])} |->
                          <<local[id].name, remote[id].version, local[id].version>>]]

\* ------------------------------------------------------ helper.confirm
\* Whether helper.confirm has to ask the operator.
Prompts(event) == ~force /\ event \notin confirm_all

\* What the operator can be seen to answer: nothing when not asked.
AnswersTo(event) == IF Prompts(event) THEN Answers ELSE {"none"}

\* Mutant: helper.confirm without its test of arg.force.
confirm_unforced(event, answer) ==
    \/ event \in confirm_all
    \/ answer \in {"yes", "all"}

\* helper.confirm: the value returned.
confirm(event, answer) ==
    \/ force
    \/ event \in confirm_all
    \/ answer \in {"yes", "all"}

\* Mutant: the answer "yes" sets the latch of the event as "all" does.
latch_on_yes(event, answer) ==
    IF Prompts(event) /\ answer \in {"yes", "all"}
    THEN confirm_all \cup {event}
    ELSE confirm_all

\* helper.confirm: confirm_all afterwards.
latch(event, answer) ==
    IF Prompts(event) /\ answer = "all" THEN confirm_all \cup {event} ELSE confirm_all

\* The history entry of one confirmation.
Gate(event, kind, key, answer) ==
    [event |-> event, kind |-> kind, key |-> key, answer |-> answer,
     prompted |-> Prompts(event), accepted |-> confirm(event, answer)]

\* ------------------------------------------------------------ manager.py
\* Mutant: new local monitors are offered before new remote ones are stored.
StageAfterOfferFirst(stage) ==
    CASE stage = "clean" -> "integrity"
      [] stage = "integrity" -> "offer"
      [] stage = "offer" -> "adopt"
      [] stage = "adopt" -> "versions"
      [] stage = "versions" -> "content"
      [] stage = "content" -> "done"

\* Mutant: new remote monitors are stored before the remote names are checked.
StageAfterAdoptFirst(stage) ==
    CASE stage = "clean" -> "adopt"
      [] stage = "adopt" -> "integrity"
      [] stage = "integrity" -> "offer"
      [] stage = "offer" -> "versions"
      [] stage = "versions" -> "content"
      [] stage = "content" -> "done"

\* Mutant: after clean_folders the run starts over with clean_folders.
StageAfterCleanAgain(stage) ==
    CASE stage = "clean" -> "clean"
      [] stage = "integrity" -> "adopt"
      [] stage = "adopt" -> "offer"
      [] stage = "offer" -> "versions"
      [] stage = "versions" -> "content"
      [] stage = "content" -> "done"

\* The order of the stages of `--sync` in main.
StageAfter(stage) ==
    CASE stage = "clean" -> "integrity"
      [] stage = "integrity" -> "adopt"
      [] stage = "adopt" -> "offer"
      [] stage = "offer" -> "versions"
      [] stage = "versions" -> "content"
      [] stage = "content" -> "done"

Ended == pc \in {"done", "aborted", "crashed"}

\* A confirmation as the summary of a run keeps it: without the answer typed.
Outcome(g) ==
    [event |-> g.event, kind |-> g.kind, key |-> g.key,
     prompted |-> g.prompted, accepted |-> g.accepted]

\* The summary kept of a run when the next one starts.
Summary ==
    [pass |-> passNo, outcome |-> pc, reason |-> abortReason,
     gates |-> {Outcome(g) : g \in gates},
     adopted |-> adopted, created |-> created, pulled |-> pulled, pushed |-> pushed,
     disk0 |-> disk0, server0 |-> server0]

NoSummary ==
    [pass |-> 0, outcome |-> "none", reason |-> "none", gates |-> {},
     adopted |-> {}, created |-> {}, pulled |-> {}, pushed |-> {},
     disk0 |-> EmptyMap, server0 |-> EmptyMap]

\* The monitors a synchronised installation starts from: one per name of
\* `names`, stored on the server and, normalised, in its own directory.
BaseIndex(name) == IF name = NA THEN 1 ELSE 2
BaseServer(names) ==
    [id \in {ServerId(BaseIndex(n)) : n \in names} |->
        LET n == CHOOSE n \in names : ServerId(BaseIndex(n)) = id
        IN  ServerRecord(id, 1, n, "x")]
BaseDisk(names) ==
    [n \in names |-> normalize(ServerRecord(ServerId(BaseIndex(n)), 1, n, "x"))]
Bases == {{}, {NA}, {NA, NB}}

Init ==
    /\ \E names \in Bases :
        /\ server = BaseServer(names)
        /\ disk = BaseDisk(names)
        /\ nextId = Cardinality(names) + 1
    /\ edits = 0
    /\ dryrun \in BOOLEAN
    /\ force \in BOOLEAN
    /\ pc = "idle"
    /\ passNo = 0
    /\ local_monitors = EmptyMap
    /\ remote_monitors = EmptyMap
    /\ cleanup = EmptyMap
    /\ confirm_all = {}
    /\ todo = {}
    /\ cleanCall = 1
    /\ created_new = FALSE
    /\ skipped = {}
    /\ version_sync_mismatch = EmptyMap
    /\ monitor_diff = EmptyMap
    /\ abortReason = "none"
    /\ gates = {}
    /\ adopted = {}
    /\ created = {}
    /\ pulled = {}
    /\ pushed = {}
    /\ disk0 = disk
    /\ server0 = server
    /\ prev = NoSummary

\* ------------------------------------------------- hand edits before the runs
\* Somebody creates a monitor in OpenSearch.
RemoteCreate(name) ==
    /\ pc = "idle" /\ passNo = 0 /\ edits < MaxEdits
    /\ server' = server_create(server, nextId, [name |-> name, body |-> "x"])
    /\ nextId' = nextId + 1
    /\ edits' = edits + 1
    /\ UNCHANGED <<disk, flags, pc, passNo, runState, history>>

\* Somebody renames a monitor in OpenSearch or changes its definition.
RemoteUpdate(id, name, body) ==
    /\ pc = "idle" /\ passNo = 0 /\ edits < MaxEdits
    /\ id \in DOMAIN server
    /\ (name = server[id].name) # (body = server[id].body)
    /\ server' = server_update(server, id, [name |-> name, body |-> body])
    /\ edits' = edits + 1
    /\ UNCHANGED <<disk, nextId, flags, pc, passNo, runState, history>>

\* The operator writes a new monitor: a directory with a monitor.json whose
\* "_id" is empty.
LocalAuthor(name) ==
    /\ pc = "idle" /\ passNo = 0 /\ edits < MaxEdits
    /\ name \notin DOMAIN disk
    /\ disk' = Put(disk, name,
                   [id |-> "", version |-> 1, name |-> name, body |-> "x", lut |-> 0])
    /\ edits' = edits + 1
    /\ UNCHANGED <<server, nextId, flags, pc, passNo, runState, history>>

\* The operator edits a monitor.json: its name or its definition.
LocalEdit(dir, name, body) ==
    /\ pc = "idle" /\ passNo = 0 /\ edits < MaxEdits
    /\ dir \in DOMAIN disk
    /\ (name = disk[dir].name) # (body = disk[dir].body)
    /\ disk' = [disk EXCEPT ![dir].name = name, ![dir].body = body]
    /\ edits' = edits + 1
    /\ UNCHANGED <<server, nextId, flags, pc, passNo, runState, history>>

\* The operator copies a monitor directory.
LocalCopy(src, dst) ==
    /\ pc = "idle" /\ passNo = 0 /\ edits < MaxEdits
    /\ src \in DOMAIN disk /\ dst \notin DOMAIN disk
    /\ disk' = Put(disk, dst, disk[src])
    /\ edits' = edits + 1
    /\ UNCHANGED <<server, nextId, flags, pc, passNo, runState, history>>

\* ------------------------------------------------------------ one run
\* The end of a run on an exception nothing catches.
Crash(reason) ==
    /\ pc' = "crashed"
    /\ abortReason' = reason

\* helper.error: print and exit(1).
Abort(reason) ==
    /\ pc' = "aborted"
    /\ abortReason' = reason

\* main up to `if arg.sync`: the handlers are built and both stores loaded.
StartPass ==
    /\ pc = "idle" \/ Ended
    /\ passNo < MaxPasses
    /\ passNo' = passNo + 1
    /\ prev' = IF passNo = 0 THEN NoSummary ELSE Summary
    /\ disk0' = disk
    /\ server0' = server
    /\ gates' = {} /\ adopted' = {} /\ created' = {} /\ pulled' = {} /\ pushed' = {}
    /\ cleanup' = EmptyMap
    /\ confirm_all' = {}
    /\ todo' = {}
    /\ cleanCall' = 1
    /\ created_new' = FALSE
    /\ skipped' = {}
    /\ version_sync_mismatch' = EmptyMap
    /\ monitor_diff' = EmptyMap
    /\ \E r \in load_monitors(disk) :
        /\ disk' = r.disk
        /\ local_monitors' = r.monitors
        /\ IF r.ok
           THEN /\ remote_monitors' = remote_load(EmptyMap, server)
                /\ pc' = "clean"
                /\ abortReason' = "none"
           ELSE /\ remote_monitors' = EmptyMap
                /\ Crash("FileNotFoundError")
    /\ UNCHANGED <<server, nextId, edits, flags>>

\* clean_folders, up to the listing of the directories.
CleanBegin ==
    /\ pc = "clean"
    /\ pc' = "clean_loop"
    /\ cleanCall' = 1
    /\ todo' = IF dryrun THEN {} ELSE DOMAIN disk
    /\ UNCHANGED <<stores, edits, flags, passNo, local_monitors, remote_monitors, cleanup,
                   confirm_all, created_new, skipped, version_sync_mismatch, monitor_diff,
                   abortReason, history>>

\* clean_folders, one directory of the listing.
CleanStep(monitor_dir, answer) ==
    /\ pc = "clean_loop"
    /\ monitor_dir \in todo
    /\ todo' = todo \ {monitor_dir}
    /\ UNCHANGED <<server, nextId, edits, flags, passNo, local_monitors, remote_monitors,
                   cleanCall, created_new, skipped, version_sync_mismatch, monitor_diff,
                   adopted, created, pulled, pushed, disk0, server0, prev>>
    /\ IF monitor_dir \notin DOMAIN disk
       THEN /\ answer = "none"
            /\ Crash("FileNotFoundError")
            /\ UNCHANGED <<disk, cleanup, confirm_all, gates>>
       ELSE LET monitor == disk[monitor_dir] IN
            IF ~pathsafe(monitor.name)
            THEN /\ answer = "none"
                 /\ Abort("unsafe local name")
                 /\ UNCHANGED <<disk, cleanup, confirm_all, gates>>
            ELSE IF monitor_dir # monitor.name
            THEN /\ answer \in AnswersTo("mismatch")
                 /\ gates' = gates \cup {Gate("mismatch", "move", monitor_dir, answer)}
                 /\ confirm_all' = latch("mismatch", answer)
                 /\ disk' = IF ~dryrun /\ confirm("mismatch", answer)
                            THEN store_monitor(Del(disk, monitor_dir), monitor)
                            ELSE disk
                 /\ cleanup' = Put(cleanup, monitor_dir, monitor.name)
                 /\ UNCHANGED <<pc, abortReason>>
            ELSE /\ answer = "none"
                 /\ UNCHANGED <<disk, cleanup, confirm_all, gates, pc, abortReason>>

\* After clean_folders returned: the first call is followed by a reload when
\* anything was recorded in local.cleanup, the second by the content stage.
CleanEnd ==
    /\ pc = "clean_loop"
    /\ todo = {}
    /\ UNCHANGED <<server, nextId, edits, flags, passNo, remote_monitors, cleanup,
                   confirm_all, todo, cleanCall, created_new, skipped,
                   version_sync_mismatch, monitor_diff, history>>
    /\ IF cleanCall = 1 /\ cleanup # EmptyMap
       THEN \E r \in load_monitors(disk) :
               /\ disk' = r.disk
               /\ local_monitors' = r.monitors
               /\ IF r.ok
                  THEN pc' = StageAfter("clean") /\ UNCHANGED abortReason
                  ELSE Crash("FileNotFoundError")
       ELSE /\ pc' = IF cleanCall = 1 THEN StageAfter("clean") ELSE StageAfter("versions")
            /\ UNCHANGED <<disk, local_monitors, abortReason>>

\* "Check for duplicate and pathsafe names in remote monitors": the loop over
\* remote.monitors in dict order; the first helper.error ends the run.
\* Mutant: the names are checked for path safety only.
RECURSIVE IntegrityLoopNoDuplicates(_, _, _)
IntegrityLoopNoDuplicates(order, remote, duplicate_remote_names) ==
    IF order = << >>
    THEN "ok"
    ELSE IF ~pathsafe(remote[Head(order)].name)
         THEN "unsafe remote name"
         ELSE IntegrityLoopNoDuplicates(Tail(order), remote, duplicate_remote_names)

RECURSIVE IntegrityLoop(_, _, _)
IntegrityLoop(order, remote, duplicate_remote_names) ==
    IF order = << >>
    THEN "ok"
    ELSE LET name == remote[Head(order)].name IN
         IF name \in duplicate_remote_names
         THEN "duplicate remote name"
         ELSE IF ~pathsafe(name)
              THEN "unsafe remote name"
              ELSE IntegrityLoop(Tail(order), remote, duplicate_remote_names \cup {name})

IntegrityCheck ==
    /\ pc = "integrity"
    /\ \E order \in Orders(DOMAIN remote_monitors) :
          LET verdict == IntegrityLoop(order, remote_monitors, {}) IN
          IF verdict = "ok"
          THEN pc' = StageAfter("integrity") /\ UNCHANGED abortReason
          ELSE Abort(verdict)
    /\ UNCHANGED <<stores, edits, flags, passNo, local_monitors, remote_monitors, cleanup,
                   confirm_all, todo, cleanCall, created_new, skipped,
                   version_sync_mismatch, monitor_diff, history>>

\* Mutant: the new remote monitors enter local.monitors but are not stored.
RECURSIVE AdoptLoopMemoryOnly(_, _, _, _)
AdoptLoopMemoryOnly(order, remote, d, local) ==
    IF order = << >>
    THEN [disk |-> d, monitors |-> local]
    ELSE LET monitor_id == Head(order) IN
         IF monitor_id \in DOMAIN local
         THEN AdoptLoopMemoryOnly(Tail(order), remote, d, local)
         ELSE AdoptLoopMemoryOnly(Tail(order), remote, d,
                                  Put(local, monitor_id, remote[monitor_id]))

\* "Store new remote monitors": the loop over remote.monitors.
RECURSIVE AdoptLoop(_, _, _, _)
AdoptLoop(order, remote, d, local) ==
    IF order = << >>
    THEN [disk |-> d, monitors |-> local]
    ELSE LET monitor_id == Head(order) IN
         IF monitor_id \in DOMAIN local
         THEN AdoptLoop(Tail(order), remote, d, local)
         ELSE AdoptLoop(Tail(order), remote, store_monitor(d, remote[monitor_id]),
                        Put(local, monitor_id, remote[monitor_id]))

AdoptRemoteOnly ==
    /\ pc = "adopt"
    /\ \E order \in Orders(DOMAIN remote_monitors) :
          LET r == AdoptLoop(order, remote_monitors, disk, local_monitors) IN
          /\ disk' = r.disk
          /\ local_monitors' = r.monitors
    /\ adopted' = (DOMAIN remote_monitors) \ (DOMAIN local_monitors)
    /\ pc' = StageAfter("adopt")
    /\ UNCHANGED <<server, nextId, edits, flags, passNo, remote_monitors, cleanup,
                   confirm_all, todo, cleanCall, created_new, skipped,
                   version_sync_mismatch, monitor_diff, abortReason, gates, created,
                   pulled, pushed, disk0, server0, prev>>

\* "Create new local monitors", up to the loop: the keys of local.monitors
\* that remote.monitors lacks are the ones the loop does not skip.
OfferBegin ==
    /\ pc = "offer"
    /\ pc' = "offer_loop"
    /\ todo' = (DOMAIN local_monitors) \ (DOMAIN remote_monitors)
    /\ created_new' = FALSE
    /\ skipped' = {}
    /\ UNCHANGED <<stores, edits, flags, passNo, local_monitors, remote_monitors, cleanup,
                   confirm_all, cleanCall, version_sync_mismatch, monitor_diff,
                   abortReason, history>>

\* Mutant: the monitor is created whatever the gate returned.
CreateDecisionAlways(confirmation) == TRUE

\* Mutant: the test of the gate's result is inverted.
CreateDecisionInverted(confirmation) == ~confirmation

\* Whether the loop goes on to create the monitor, given what the gate returned.
CreateDecision(confirmation) == confirmation

\* "Create new local monitors", one local-only monitor.
OfferStep(monitor_id, answer) ==
    /\ pc = "offer_loop"
    /\ monitor_id \in todo
    /\ answer \in AnswersTo("general")
    /\ todo' = todo \ {monitor_id}
    /\ gates' = gates \cup {Gate("general", "create", monitor_id, answer)}
    /\ confirm_all' = latch("general", answer)
    /\ UNCHANGED <<edits, flags, passNo, local_monitors, remote_monitors, cleanup,
                   cleanCall, version_sync_mismatch, monitor_diff, adopted, pulled,
                   pushed, disk0, server0, prev>>
    /\ IF CreateDecision(confirm("general", answer))
       THEN LET p == prepare_for_create(local_monitors[monitor_id]) IN
            /\ created_new' = TRUE
            /\ UNCHANGED skipped
            /\ IF ~p.ok
               THEN /\ Abort("unsafe name in create")
                    /\ UNCHANGED <<stores, created>>
               ELSE IF dryrun
               THEN \* create_monitor returns monitor["_id"] of a payload without it
                    /\ Crash("KeyError: _id")
                    /\ UNCHANGED <<stores, created>>
               ELSE /\ server' = server_create(server, nextId, p.content)
                    /\ nextId' = nextId + 1
                    /\ disk' = store_monitor(disk, normalize(server'[ServerId(nextId)]))
                    /\ created' = created \cup {monitor_id}
                    /\ UNCHANGED <<pc, abortReason>>
       ELSE /\ skipped' = skipped \cup {monitor_id}
            /\ UNCHANGED <<stores, created_new, created, pc, abortReason>>

\* After the loop: the skipped keys leave local.monitors, and both stores are
\* loaded again when something was created.
OfferEnd ==
    /\ pc = "offer_loop"
    /\ todo = {}
    /\ UNCHANGED <<server, nextId, edits, flags, passNo, cleanup, confirm_all, todo,
                   cleanCall, created_new, skipped, version_sync_mismatch, monitor_diff,
                   history>>
    /\ IF created_new
       THEN \E r \in load_monitors(disk) :
               /\ disk' = r.disk
               /\ local_monitors' = r.monitors
               /\ IF r.ok
                  THEN /\ remote_monitors' = remote_load(remote_monitors, server)
                       /\ pc' = StageAfter("offer")
                       /\ UNCHANGED abortReason
                  ELSE /\ UNCHANGED remote_monitors
                       /\ Crash("FileNotFoundError")
       ELSE /\ local_monitors' = [id \in (DOMAIN local_monitors) \ skipped |->
                                     local_monitors[id]]
            /\ pc' = StageAfter("offer")
            /\ UNCHANGED <<disk, remote_monitors, abortReason>>

\* "Checking for updated remote monitors", up to the loop.
VersionsBegin ==
    /\ pc = "versions"
    /\ LET c == check_version_state(local_monitors, remote_monitors) IN
       IF c.ok
       THEN /\ version_sync_mismatch' = c.mismatch
            /\ todo' = DOMAIN c.mismatch
            /\ pc' = "versions_loop"
            /\ UNCHANGED abortReason
       ELSE /\ Crash("KeyError: local_monitors[id]")
            /\ UNCHANGED <<version_sync_mismatch, todo>>
    /\ UNCHANGED <<stores, edits, flags, passNo, local_monitors, remote_monitors, cleanup,
                   confirm_all, cleanCall, created_new, skipped, monitor_diff, history>>

\* What the accepted pull writes into the local layout.
PullSource(id) == remote_monitors[id]

\* "Checking for updated remote monitors", one mismatch.
VersionStep(id, answer) ==
    /\ pc = "versions_loop"
    /\ id \in todo
    /\ answer \in AnswersTo("sync")
    /\ todo' = todo \ {id}
    /\ gates' = gates \cup {Gate("sync", "pull", id, answer)}
    /\ confirm_all' = latch("sync", answer)
    /\ IF confirm("sync", answer)
       THEN /\ disk' = store_monitor(disk, PullSource(id))
            /\ pulled' = IF dryrun THEN pulled ELSE pulled \cup {id}
       ELSE UNCHANGED <<disk, pulled>>
    /\ UNCHANGED <<server, nextId, edits, flags, pc, passNo, local_monitors,
                   remote_monitors, cleanup, cleanCall, created_new, skipped,
                   version_sync_mismatch, monitor_diff, abortReason, adopted, created,
                   pushed, disk0, server0, prev>>

\* After the loop: when there was any mismatch the local store is loaded
\* again and clean_folders runs a second time.
VersionsEnd ==
    /\ pc = "versions_loop"
    /\ todo = {}
    /\ UNCHANGED <<server, nextId, edits, flags, passNo, remote_monitors, cleanup,
                   confirm_all, created_new, skipped, version_sync_mismatch,
                   monitor_diff, history>>
    /\ IF version_sync_mismatch # EmptyMap
       THEN \E r \in load_monitors(disk) :
               /\ disk' = r.disk
               /\ local_monitors' = r.monitors
               /\ IF r.ok
                  THEN /\ pc' = "clean_loop"
                       /\ cleanCall' = 2
                       /\ todo' = IF dryrun THEN {} ELSE DOMAIN r.disk
                       /\ UNCHANGED abortReason
                  ELSE /\ Crash("FileNotFoundError")
                       /\ UNCHANGED <<cleanCall, todo>>
       ELSE /\ pc' = StageAfter("versions")
            /\ UNCHANGED <<disk, local_monitors, cleanCall, todo, abortReason>>

\* "Checking local monitors for changes", up to the loop.
ContentBegin ==
    /\ pc = "content"
    /\ LET c == compare_monitors(local_monitors, remote_monitors) IN
       IF c.ok
       THEN /\ monitor_diff' = c.diff
            /\ todo' = DOMAIN c.diff
            /\ pc' = "content_loop"
            /\ UNCHANGED abortReason
       ELSE /\ Crash("KeyError: remote_monitors[monitor_id]")
            /\ UNCHANGED <<monitor_diff, todo>>
    /\ UNCHANGED <<stores, edits, flags, passNo, local_monitors, remote_monitors, cleanup,
                   confirm_all, cleanCall, created_new, skipped, version_sync_mismatch,
                   history>>

\* "Checking local monitors for changes", one difference.
ContentStep(monitor_id, answer) ==
    /\ pc = "content_loop"
    /\ monitor_id \in todo
    /\ answer \in AnswersTo("monitor_update")
    /\ todo' = todo \ {monitor_id}
    /\ gates' = gates \cup {Gate("monitor_update", "push", monitor_id, answer)}
    /\ confirm_all' = latch("monitor_update", answer)
    /\ IF confirm("monitor_update", answer)
       THEN IF dryrun
            THEN \* update_monitor returns what it was given; store_monitor returns
                 UNCHANGED <<server, disk, pushed>>
            ELSE /\ server' = server_update(server, monitor_id, local_monitors[monitor_id])
                 /\ disk' = store_monitor(disk, normalize(server'[monitor_id]))
                 /\ pushed' = pushed \cup {monitor_id}
       ELSE UNCHANGED <<server, disk, pushed>>
    /\ UNCHANGED <<nextId, edits, flags, pc, passNo, local_monitors, remote_monitors,
                   cleanup, cleanCall, created_new, skipped, version_sync_mismatch,
                   monitor_diff, abortReason, adopted, created, pulled, disk0, server0,
                   prev>>

\* After the loop the run goes on to the README files and ends.
ContentEnd ==
    /\ pc = "content_loop"
    /\ todo = {}
    /\ pc' = StageAfter("content")
    /\ UNCHANGED <<stores, edits, flags, passNo, runState, history>>

\* do_notify of main at this point of the run: set after create_monitor and
\* after update_monitor returned, in a dry run as well (where create_monitor
\* does not return: KeyError).
do_notify ==
    \/ created # {}
    \/ \E g \in gates : g.kind = "push" /\ g.accepted

\* `if do_notify: notify.send()` once the instance is processed; send posts
\* the message to the webhook configured.
NotifySent == pc = "done" /\ do_notify

\* ------------------------------------------------------- specification
Next ==
    \/ \E name \in Names : RemoteCreate(name)
    \/ \E id \in DOMAIN server, name \in Names, body \in Bodies : RemoteUpdate(id, name, body)
    \/ \E name \in Names : LocalAuthor(name)
    \/ \E dir \in DOMAIN disk, name \in Names, body \in Bodies : LocalEdit(dir, name, body)
    \/ \E src \in DOMAIN disk, dst \in Names : LocalCopy(src, dst)
    \/ StartPass
    \/ CleanBegin
    \/ \E monitor_dir \in todo, answer \in Answers \cup {"none"} : CleanStep(monitor_dir, answer)
    \/ CleanEnd
    \/ IntegrityCheck
    \/ AdoptRemoteOnly
    \/ OfferBegin
    \/ \E monitor_id \in todo, answer \in Answers \cup {"none"} : OfferStep(monitor_id, answer)
    \/ OfferEnd
    \/ VersionsBegin
    \/ \E id \in todo, answer \in Answers \cup {"none"} : VersionStep(id, answer)
    \/ VersionsEnd
    \/ ContentBegin
    \/ \E monitor_id \in todo, answer \in Answers \cup {"none"} : ContentStep(monitor_id, answer)
    \/ ContentEnd

Spec == Init /\ [][Next]_vars

\* ------------------------------------- the two load_monitors, called again
\* The handlers of one run, `remote` and `local`, have load_monitors called
\* on them several times (manager.py 206-207, 364, 434-435, 459) while the
\* operator sits at the prompts; the server and the directories can be
\* changed by somebody else in between.
\* Number of such changes.
MaxChanges == 3

\* Somebody creates a monitor in OpenSearch between two loads.
SourceCreate(name) ==
    /\ edits < MaxChanges
    /\ server' = server_create(server, nextId, [name |-> name, body |-> "x"])
    /\ nextId' = nextId + 1
    /\ edits' = edits + 1
    /\ pc' = "source_changed"
    /\ UNCHANGED <<disk, flags, passNo, runState, history>>

\* Somebody deletes a monitor in OpenSearch between two loads.
SourceDelete(id) ==
    /\ edits < MaxChanges
    /\ id \in DOMAIN server
    /\ server' = Del(server, id)
    /\ edits' = edits + 1
    /\ pc' = "source_changed"
    /\ UNCHANGED <<disk, nextId, flags, passNo, runState, history>>

\* Somebody deletes a monitor directory between two loads.
DirectoryDelete(dir) ==
    /\ edits < MaxChanges
    /\ dir \in DOMAIN disk
    /\ disk' = Del(disk, dir)
    /\ edits' = edits + 1
    /\ pc' = "source_changed"
    /\ UNCHANGED <<server, nextId, flags, passNo, runState, history>>

\* remote.load_monitors() on the handler as it is.
RemoteLoadMonitors ==
    /\ remote_monitors' = remote_load(remote_monitors, server)
    /\ pc' = "remote_loaded"
    /\ UNCHANGED <<stores, edits, flags, passNo, local_monitors, cleanup, confirm_all,
                   todo, cleanCall, created_new, skipped, version_sync_mismatch,
                   monitor_diff, abortReason, history>>

\* local.load_monitors() on the handler as it is.
LocalLoadMonitors ==
    /\ \E r \in load_monitors(disk) :
          /\ r.ok
          /\ disk' = r.disk
          /\ local_monitors' = r.monitors
    /\ pc' = "local_loaded"
    /\ UNCHANGED <<server, nextId, edits, flags, passNo, remote_monitors, cleanup,
                   confirm_all, todo, cleanCall, created_new, skipped,
                   version_sync_mismatch, monitor_diff, abortReason, history>>

LoadNext ==
    \/ \E name \in Names : SourceCreate(name)
    \/ \E id \in DOMAIN server : SourceDelete(id)
    \/ \E dir \in DOMAIN disk : DirectoryDelete(dir)
    \/ RemoteLoadMonitors
    \/ LocalLoadMonitors

LoadSpec == Init /\ [][LoadNext]_vars

\* ------------------------------------- runs after a deletion on the server
\* Somebody deletes a monitor in OpenSearch.
RemoteDelete(id) ==
    /\ pc = "idle" /\ passNo = 0 /\ edits < MaxEdits
    /\ id \in DOMAIN server
    /\ server' = Del(server, id)
    /\ edits' = edits + 1
    /\ UNCHANGED <<disk, nextId, flags, pc, passNo, runState, history>>

DeleteNext ==
    \/ Next
    \/ \E id \in DOMAIN server : RemoteDelete(id)

DeleteSpec == Init /\ [][DeleteNext]_vars

\* ------------------------------------ runs on a layout with a leftover copy
\* Synchronised stores of one or two monitors, with a copy of the directory
\* of the first left in the layout from before.
InitLeftover ==
    /\ \E names \in {{NA}, {NA, NB}} :
        /\ server = BaseServer(names)
        /\ disk = Put(BaseDisk(names), NU, BaseDisk(names)[NA])
        /\ nextId = Cardinality(names) + 1
    /\ edits = 0
    /\ dryrun \in BOOLEAN
    /\ force \in BOOLEAN
    /\ pc = "idle"
    /\ passNo = 0
    /\ local_monitors = EmptyMap
    /\ remote_monitors = EmptyMap
    /\ cleanup = EmptyMap
    /\ confirm_all = {}
    /\ todo = {}
    /\ cleanCall = 1
    /\ created_new = FALSE
    /\ skipped = {}
    /\ version_sync_mismatch = EmptyMap
    /\ monitor_diff = EmptyMap
    /\ abortReason = "none"
    /\ gates = {}
    /\ adopted = {}
    /\ created = {}
    /\ pulled = {}
    /\ pushed = {}
    /\ disk0 = disk
    /\ server0 = server
    /\ prev = NoSummary

LeftoverSpec == InitLeftover /\ [][Next]_vars

\* ------------------------------------------- runs with the prompt repeated
\* helper.confirm is at its input() for an item of the loop the run is in.
PromptPending ==
    \/ /\ pc = "clean_loop"
       /\ Prompts("mismatch")
       /\ \E monitor_dir \in todo :
             /\ monitor_dir \in DOMAIN disk
             /\ pathsafe(disk[monitor_dir].name)
             /\ monitor_dir # disk[monitor_dir].name
    \/ pc = "offer_loop" /\ todo # {} /\ Prompts("general")
    \/ pc = "versions_loop" /\ todo # {} /\ Prompts("sync")
    \/ pc = "content_loop" /\ todo # {} /\ Prompts("monitor_update")

\* helper.confirm, an empty answer: `while confirmation == ""` prints the
\* prompt again and reads again; nothing else changes.
Reprompt ==
    /\ PromptPending
    /\ UNCHANGED vars

\* The steps of a run once it has started.
RunNext ==
    \/ CleanBegin
    \/ \E monitor_dir \in todo, answer \in Answers \cup {"none"} : CleanStep(monitor_dir, answer)
    \/ CleanEnd
    \/ IntegrityCheck
    \/ AdoptRemoteOnly
    \/ OfferBegin
    \/ \E monitor_id \in todo, answer \in Answers \cup {"none"} : OfferStep(monitor_id, answer)
    \/ OfferEnd
    \/ VersionsBegin
    \/ \E id \in todo, answer \in Answers \cup {"none"} : VersionStep(id, answer)
    \/ VersionsEnd
    \/ ContentBegin
    \/ \E monitor_id \in todo, answer \in Answers \cup {"none"} : ContentStep(monitor_id, answer)
    \/ ContentEnd

LiveNext ==
    \/ Next
    \/ Reprompt

\* The program is one thread that runs on by itself; at a prompt it waits
\* for the operator, who is taken to give a non-empty answer in the end.
LiveSpec == Init /\ [][LiveNext]_vars /\ WF_vars(RunNext)

\* --------------------------------------- runs with failing remote calls
\* What get, put and post can meet: a response whose status is not 200 (201
\* too for post), or no connection.
Failures == {"returned error 500", "ConnectionError"}

\* Mutant: the error is printed and the call returns.
ResponseErrorIgnored(failure) ==
    /\ abortReason' = failure
    /\ UNCHANGED pc

\* get, put, post on a failure: exit(1), helper.error, or an exception of
\* requests that nothing catches; the program ends.
ResponseError(failure) == Abort(failure)

\* main up to `if arg.sync` when the search of remote.load_monitors (or a
\* get of get_notification_channels) fails: the local store is loaded already.
FailLoad(failure) ==
    /\ pc = "idle" \/ Ended
    /\ passNo < MaxPasses
    /\ passNo' = passNo + 1
    /\ prev' = IF passNo = 0 THEN NoSummary ELSE Summary
    /\ disk0' = disk
    /\ server0' = server
    /\ gates' = {} /\ adopted' = {} /\ created' = {} /\ pulled' = {} /\ pushed' = {}
    /\ cleanup' = EmptyMap
    /\ confirm_all' = {}
    /\ todo' = {}
    /\ cleanCall' = 1
    /\ created_new' = FALSE
    /\ skipped' = {}
    /\ version_sync_mismatch' = EmptyMap
    /\ monitor_diff' = EmptyMap
    /\ remote_monitors' = EmptyMap
    /\ \E r \in load_monitors(disk) :
        /\ disk' = r.disk
        /\ local_monitors' = r.monitors
        /\ IF r.ok THEN ResponseError(failure) ELSE Crash("FileNotFoundError")
    /\ UNCHANGED <<server, nextId, edits, flags>>

\* "Create new local monitors", one local-only monitor, when the post of
\* create_monitor fails.
FailCreate(monitor_id, answer, failure) ==
    /\ pc = "offer_loop"
    /\ monitor_id \in todo
    /\ answer \in AnswersTo("general")
    /\ CreateDecision(confirm("general", answer))
    /\ prepare_for_create(local_monitors[monitor_id]).ok
    /\ ~dryrun
    /\ todo' = todo \ {monitor_id}
    /\ gates' = gates \cup {Gate("general", "create", monitor_id, answer)}
    /\ confirm_all' = latch("general", answer)
    /\ created_new' = TRUE
    /\ ResponseError(failure)
    /\ UNCHANGED <<stores, edits, flags, passNo, local_monitors, remote_monitors, cleanup,
                   cleanCall, skipped, version_sync_mismatch, monitor_diff, adopted,
                   created, pulled, pushed, disk0, server0, prev>>

\* After the loop, something created: the local store is loaded again and the
\* search of remote.load_monitors fails.
FailReload(failure) ==
    /\ pc = "offer_loop"
    /\ todo = {}
    /\ created_new
    /\ \E r \in load_monitors(disk) :
          /\ disk' = r.disk
          /\ local_monitors' = r.monitors
          /\ IF r.ok THEN ResponseError(failure) ELSE Crash("FileNotFoundError")
    /\ UNCHANGED <<server, nextId, edits, flags, passNo, remote_monitors, cleanup,
                   confirm_all, todo, cleanCall, created_new, skipped,
                   version_sync_mismatch, monitor_diff, history>>

\* "Checking local monitors for changes", one difference, when update_monitor
\* fails: in its put (nothing is stored), or in the get that follows the put.
FailUpdate(monitor_id, answer, failure, stored) ==
    /\ pc = "content_loop"
    /\ monitor_id \in todo
    /\ answer \in AnswersTo("monitor_update")
    /\ confirm("monitor_update", answer)
    /\ ~dryrun
    /\ todo' = todo \ {monitor_id}
    /\ gates' = gates \cup {Gate("monitor_update", "push", monitor_id, answer)}
    /\ confirm_all' = latch("monitor_update", answer)
    /\ server' = IF stored
                 THEN server_update(server, monitor_id, local_monitors[monitor_id])
                 ELSE server
    /\ pushed' = IF stored THEN pushed \cup {monitor_id} ELSE pushed
    /\ ResponseError(failure)
    /\ UNCHANGED <<disk, nextId, edits, flags, passNo, local_monitors, remote_monitors,
                   cleanup, cleanCall, created_new, skipped, version_sync_mismatch,
                   monitor_diff, adopted, created, pulled, disk0, server0, prev>>

FailNext ==
    \/ Next
    \/ \E failure \in Failures : FailLoad(failure)
    \/ \E monitor_id \in todo, answer \in Answers, failure \in Failures :
          FailCreate(monitor_id, answer, failure)
    \/ \E failure \in Failures : FailReload(failure)
    \/ \E monitor_id \in todo, answer \in Answers, failure \in Failures,
          stored \in BOOLEAN : FailUpdate(monitor_id, answer, failure, stored)

FailSpec == Init /\ [][FailNext]_vars

\* ------------------------------------- runs on files with a time stamp
\* The operator puts a monitor.json in place that carries the server's
\* last_update_time (an export of the monitor, a file restored from a copy).
LocalStamp(dir) ==
    /\ pc = "idle" /\ passNo = 0 /\ edits < MaxEdits
    /\ dir \in DOMAIN disk
    /\ disk[dir].lut # ServerTime
    /\ disk' = [disk EXCEPT ![dir].lut = ServerTime]
    /\ edits' = edits + 1
    /\ UNCHANGED <<server, nextId, flags, pc, passNo, runState, history>>

VolatileNext ==
    \/ Next
    \/ \E dir \in DOMAIN disk : LocalStamp(dir)

VolatileSpec == Init /\ [][VolatileNext]_vars

\* ------------------------------------------------ helper.pathsafe, called
\* Longest name given to helper.pathsafe.
MaxNameLen == 2

\* The characters the names are made of: a letter, a space, a tab and one
\* of the forbidden characters.
PathChars == {"A", " ", "\t", ":"}
PathInputs == UNION {[1..n -> PathChars] : n \in 0..MaxNameLen}

\* One call helper.pathsafe(s); the name and the value returned are kept.
CheckPath(s) ==
    /\ todo' = {s}
    /\ pc' = IF pathsafe(s) THEN "pathsafe" ELSE "not pathsafe"
    /\ UNCHANGED <<stores, edits, flags, passNo, local_monitors, remote_monitors,
                   cleanup, confirm_all, cleanCall, created_new, skipped,
                   version_sync_mismatch, monitor_diff, abortReason, history>>

PathNext == \E s \in PathInputs : CheckPath(s)

PathSpec == Init /\ [][PathNext]_vars

\* --------------------------------------- helper.prepare_for_create, called
\* Most triggers of a monitor and most actions of a trigger.
MaxTriggers == 2
MaxActions == 2

remove_keys == {"enabled_time", "last_update_time", "data_sources", "owner"}
TriggerTypes == {"document_level_trigger", "query_level_trigger", "bucket_level_trigger"}

\* A trigger {type: {"id": ..., "actions": [...]}}: whether it has the key
\* "id", and for each of its actions whether that has the key "id".
Triggers ==
    [type : TriggerTypes, id : BOOLEAN,
     actions : UNION {[1..n -> BOOLEAN] : n \in 0..MaxActions}]

\* monitor["monitor"] of a local monitor: its name, which of the keys of
\* remove_keys it has, and its triggers.
Contents ==
    [name : {NA, NU}, keys : SUBSET remove_keys,
     triggers : UNION {[1..n -> Triggers] : n \in 0..MaxTriggers}]

\* "for action in ...[\"actions\"]: del action[\"id\"]": the ids are deleted in
\* place up to the first action without one, where KeyError is raised.
RECURSIVE DelActionIds(_)
DelActionIds(actions) ==
    IF actions = <<>> THEN [raised |-> FALSE, actions |-> <<>>]
    ELSE IF ~Head(actions) THEN [raised |-> TRUE, actions |-> actions]
    ELSE LET rest == DelActionIds(Tail(actions)) IN
         [raised |-> rest.raised, actions |-> <<FALSE>> \o rest.actions]

\* "try: for trigger in content[\"triggers\"]: del trigger[kind][\"id\"] ...
\* except KeyError: pass": the loop ends at the first KeyError (a trigger of
\* another type, a missing id); what was deleted before stays deleted.
RECURSIVE DelTriggerIds(_, _)
DelTriggerIds(triggers, kind) ==
    IF triggers = <<>> THEN <<>>
    ELSE LET trigger == Head(triggers) IN
         IF trigger.type # kind \/ ~trigger.id THEN triggers
         ELSE LET a == DelActionIds(trigger.actions)
                  done == [trigger EXCEPT !.id = FALSE, !.actions = a.actions]
              IN IF a.raised THEN <<done>> \o Tail(triggers)
                 ELSE <<done>> \o DelTriggerIds(Tail(triggers), kind)

\* One call helper.prepare_for_create; what it was given and what it
\* returned are kept. On a name that is not path-safe helper.error exits.
PrepareForCreate(content) ==
    /\ IF ~pathsafe(content.name)
       THEN /\ pc' = "aborted"
            /\ abortReason' = "unsafe name in create"
            /\ todo' = {}
       ELSE /\ pc' = "prepared"
            /\ UNCHANGED abortReason
            /\ todo' = {[given |-> content,
                         payload |-> [name |-> content.name,
                                      keys |-> content.keys \ remove_keys,
                                      triggers |->
                                         DelTriggerIds(
                                            DelTriggerIds(content.triggers,
                                                          "document_level_trigger"),
                                            "query_level_trigger")]]}
    /\ UNCHANGED <<stores, edits, flags, passNo, local_monitors, remote_monitors,
                   cleanup, confirm_all, cleanCall, created_new, skipped,
                   version_sync_mismatch, monitor_diff, history>>

PrepareNext == pc = "idle" /\ \E content \in Contents : PrepareForCreate(content)

PrepareSpec == Init /\ [][PrepareNext]_vars

\* ------------------------------------- the integrity check, what it prints
\* What remote.monitors can hold when the check runs: up to two monitors.
RemoteMaps ==
    UNION {[ids -> [id : {"m1", "m2"}, version : {1}, name : Names, body : {"x"},
                    lut : {0}]] : ids \in SUBSET {"m1", "m2"}}

\* The text helper.error prints, as its fixed text and the values formatted
\* into it. The duplicate message is an f-string whose field is written with
\* doubled braces, which print as braces: no value is formatted into it. The
\* unsafe message gets the name as the details of helper.error.
ErrorText(verdict, name) ==
    IF verdict = "duplicate remote name"
    THEN [text |-> "Duplicate names found in OpenSearch: {remote_contents['monitor']['name']}.",
          values |-> << >>]
    ELSE [text |-> "File-path unsafe monitor name found in OpenSearch.",
          values |-> <<name>>]

\* The loop of the integrity check, giving the name it stops at and what it
\* prints.
RECURSIVE IntegrityReport(_, _, _)
IntegrityReport(order, remote, duplicate_remote_names) ==
    IF order = << >>
    THEN [verdict |-> "ok", name |-> << >>, printed |-> [text |-> "", values |-> << >>]]
    ELSE LET name == remote[Head(order)].name IN
         IF name \in duplicate_remote_names
         THEN [verdict |-> "duplicate remote name", name |-> name,
               printed |-> ErrorText("duplicate remote name", name)]
         ELSE IF ~pathsafe(name)
              THEN [verdict |-> "unsafe remote name", name |-> name,
                    printed |-> ErrorText("unsafe remote name", name)]
              ELSE IntegrityReport(Tail(order), remote, duplicate_remote_names \cup {name})

\* One run of the check on the monitors given; what it stopped at is kept.
CheckRemote(remote, order) ==
    /\ remote_monitors' = remote
    /\ LET r == IntegrityReport(order, remote, {}) IN
       /\ r.verdict = IntegrityLoop(order, remote, {})
       /\ IF r.verdict = "ok"
          THEN pc' = StageAfter("integrity") /\ todo' = {} /\ UNCHANGED abortReason
          ELSE Abort(r.verdict) /\ todo' = {[name |-> r.name, printed |-> r.printed]}
    /\ UNCHANGED <<stores, edits, flags, passNo, local_monitors, cleanup, confirm_all,
                   cleanCall, created_new, skipped, version_sync_mismatch, monitor_diff,
                   history>>

ReportNext ==
    /\ pc = "idle"
    /\ \E remote \in RemoteMaps : \E order \in Orders(DOMAIN remote) :
          /\ \A id \in DOMAIN remote : remote[id].id = id
          /\ CheckRemote(remote, order)

ReportSpec == Init /\ [][ReportNext]_vars

\* ----------------------------------------------------------------- claims
NewGates == gates' \ gates
GatesOf(kinds) == {g \in gates : g.kind \in kinds}
IntegrityReasons == {"duplicate remote name", "unsafe remote name"}

\* C1: within a run the stages follow a fixed order: no new remote monitor
\* is stored once a creation has been offered, no creation is offered or made
\* once a version pull has been offered, and no version pull is offered or
\* stored once a content push has been offered.
C1_StagesInOrder ==
    [][/\ (adopted' \ adopted # {}) =>
            /\ GatesOf({"create", "pull", "push"}) = {}
            /\ created = {} /\ pulled = {} /\ pushed = {}
       /\ ((\E g \in NewGates : g.kind = "create") \/ created' \ created # {}) =>
            /\ GatesOf({"pull", "push"}) = {}
            /\ pulled = {} /\ pushed = {}
       /\ ((\E g \in NewGates : g.kind = "pull") \/ pulled' \ pulled # {}) =>
            /\ GatesOf({"push"}) = {}
            /\ pushed = {}
      ]_vars

\* C1 witness: a finished run that stored a new remote monitor, then offered
\* a version pull, then offered a content push.
C1_Witness ==
    /\ pc = "done"
    /\ adopted # {}
    /\ GatesOf({"pull"}) # {}
    /\ GatesOf({"push"}) # {}

\* C2 as claimed: a run that ended on a duplicate or path-unsafe remote name
\* left the local layout and the server as they were when it started.
C2_Original ==
    (pc = "aborted" /\ abortReason \in IntegrityReasons) =>
        (disk = disk0 /\ server = server0)

\* Two directories of the layout hold the same identity.
DuplicateIds(d) ==
    \E a, b \in DOMAIN d : a # b /\ d[a].id # "" /\ d[a].id = d[b].id

\* C2 as amended: a run that ended on a duplicate or path-unsafe remote name
\* has not touched the server and has stored, created, pulled and pushed
\* nothing; the layout differs from the one it started with only if a folder
\* move was confirmed or the loading removed a duplicate of an identity.
C2_NoReconcileBeforeAbort ==
    (pc = "aborted" /\ abortReason \in IntegrityReasons) =>
        /\ server = server0
        /\ adopted = {} /\ created = {} /\ pulled = {} /\ pushed = {}
        /\ GatesOf({"create", "pull", "push"}) = {}
        /\ disk # disk0 =>
             \/ \E g \in gates : g.kind = "move" /\ g.accepted
             \/ DuplicateIds(disk0)

\* C2 witness: a run that ended on the remote names after a confirmed folder
\* move had changed the layout.
C2_Witness ==
    /\ pc = "aborted" /\ abortReason \in IntegrityReasons
    /\ disk # disk0
    /\ \E g \in gates : g.kind = "move" /\ g.accepted

\* Two loaded remote monitors have the same name, or one has an unsafe name.
RemoteViolation ==
    \/ \E a, b \in DOMAIN remote_monitors :
          a # b /\ remote_monitors[a].name = remote_monitors[b].name
    \/ \E a \in DOMAIN remote_monitors : ~pathsafe(remote_monitors[a].name)

C4_CreateOnlyAfterAccept ==
    [][/\ (adopted' \ adopted # {}) => gates' = gates
       /\ \A k \in created' \ created :
             \E g \in NewGates : g.kind = "create" /\ g.key = k /\ g.accepted
       /\ (\E g \in NewGates : g.kind = "create" /\ ~g.accepted) =>
             (server' = server /\ created' = created)
       /\ (pc = "offer_loop" /\ server' # server) => created' # created
      ]_vars

\* C4 witness: a run that stored a new remote monitor without asking and
\* then created a local one after the operator was asked and accepted.
C4_Witness ==
    /\ adopted # {}
    /\ GatesOf({"move"}) = {}
    /\ \E g \in gates : g.kind = "create" /\ g.prompted /\ g.accepted /\ g.key \in created

\* The local-only monitor a directory holds is loaded under the placeholder
\* identity of that directory.
HoldsPlaceholder(d, key) ==
    \E dir \in DOMAIN d : d[dir].id = "" /\ PlaceholderId(dir) = key

PastOffer == pc \in {"versions", "versions_loop", "content", "content_loop", "done"}

C6_Original ==
    \A g \in gates :
       (~dryrun /\ g.kind = "create" /\ g.prompted /\ ~g.accepted
           /\ g.key \in DOMAIN local_monitors) =>
          ~(pc = "crashed" /\ abortReason = "KeyError: remote_monitors[monitor_id]")

AllDeclined(gs) == \A g \in gs : ~g.accepted
AllAccepted(gs) == \A g \in gs : g.accepted
Proposed(gs) == {<<g.kind, g.key>> : g \in {h \in gs : h.kind # "move"}}

\* C7 as stated, for a real run on a layout without duplicate identities: two
\* runs to the end in which every confirmation is declined propose the same
\* creations, pulls and pushes.
C7_Original ==
    (~dryrun /\ passNo = 2 /\ pc = "done" /\ prev.outcome = "done"
        /\ ~DuplicateIds(prev.disk0)
        /\ AllDeclined(gates) /\ AllDeclined(prev.gates)) =>
       Proposed(gates) = Proposed(prev.gates)

\* The layout d agrees with the server srv in what it holds: every directory
\* carries the name of its monitor and holds the server's record of it.
InAgreement(d, srv) ==
    \A dir \in DOMAIN d :
       /\ d[dir].id \in DOMAIN srv
       /\ d[dir] = normalize(srv[d[dir].id])
       /\ dir = d[dir].name

RemoteOnly(d, srv) == (DOMAIN srv) \ {d[dir].id : dir \in DOMAIN d}

NameViolation(srv) ==
    \/ \E a, b \in DOMAIN srv : a # b /\ srv[a].name = srv[b].name
    \/ \E a \in DOMAIN srv : ~pathsafe(srv[a].name)

\* The layout d with the records of the server's other monitors added, each
\* under its name.
WithRemoteOnly(d, srv) ==
    [dir \in (DOMAIN d) \cup {srv[id].name : id \in RemoteOnly(d, srv)} |->
        IF dir \in DOMAIN d
        THEN d[dir]
        ELSE normalize(srv[CHOOSE id \in DOMAIN srv : srv[id].name = dir])]

AdoptCase(d, srv) ==
    /\ ~dryrun
    /\ ~NameViolation(srv)
    /\ InAgreement(d, srv)
    /\ RemoteOnly(d, srv) # {}

SameRecords(d, srv) ==
    {d[dir] : dir \in DOMAIN d} = {normalize(srv[id]) : id \in DOMAIN srv}

\* C9 as stated, for a real run: a run that reaches DONE with every
\* confirmation accepted leaves the layout holding the server's monitors, with
\* the server's versions and contents.
C9_Original ==
    (~dryrun /\ pc = "done" /\ AllAccepted(gates)) => SameRecords(disk, server)

\* C10 as stated, for a real run: once the version stage is over, the layout
\* holds the remote record of every monitor whose pull the operator accepted.
C10_Original ==
    (~dryrun /\ pc = "content") =>
       \A g \in gates :
          (g.kind = "pull" /\ g.accepted) =>
             \E dir \in DOMAIN disk : disk[dir] = remote_monitors[g.key]

\* Every entry the layout d0 holds for the identity id is in d unchanged.
Kept(d0, d, id) ==
    \A dir \in DOMAIN d0 : d0[dir].id = id => (dir \in DOMAIN d /\ d[dir] = d0[dir])

\* C11 as stated, for a real run in which nothing but version pulls was
\* offered or stored and whose layout began without duplicate identities:
\* when the version stage is over, the entry of every monitor whose pull the
\* operator declined is in the layout as it was when the run started.
C11_Original ==
    (~dryrun /\ pc = "content" /\ ~DuplicateIds(disk0) /\ adopted = {}
        /\ \A g \in gates : g.kind = "pull") =>
       \A g \in gates : (g.kind = "pull" /\ ~g.accepted) => Kept(disk0, disk, g.key)

\* The identities both in-memory maps hold with differing monitor contents.
Differing ==
    {id \in (DOMAIN local_monitors) \cap (DOMAIN remote_monitors) :
        DeepDiff(remote_monitors[id], local_monitors[id]) # {}}

\* C12 as stated, for a real run: a run that entered the content stage and
\* ended there has asked about the push of every monitor that both in-memory
\* maps hold with differing contents.
C12_Original ==
    (~dryrun /\ (pc = "done"
                   \/ (pc = "crashed" /\ abortReason = "KeyError: remote_monitors[monitor_id]"))) =>
       \A id \in Differing : \E g \in gates : g.kind = "push" /\ g.key = id

\* C13 as stated, for a real run: after the creations and the reload that
\* follows them, the layout holds no placeholder entry of a monitor whose
\* creation was accepted and issued.
C13_Original ==
    (~dryrun /\ pc = "versions") =>
       \A key \in created : ~HoldsPlaceholder(disk, key)

\* The directories of the layout d that hold the identity id.
Entries(d, id) == {dir \in DOMAIN d : d[dir].id = id}

\* A step in which the local store is loaded: at the start of a run, after a
\* folder clean-up that recorded something, after a creation, and after the
\* version stage found a gap.
LoadStep ==
    \/ passNo' = passNo + 1
    \/ pc = "clean_loop" /\ todo = {} /\ cleanCall = 1 /\ cleanup # EmptyMap /\ pc' # pc
    \/ pc = "offer_loop" /\ todo = {} /\ created_new /\ pc' # pc
    \/ pc = "versions_loop" /\ todo = {} /\ version_sync_mismatch # EmptyMap /\ pc' # pc

\* C14 as stated, for a real run: when the store is loaded from a layout in
\* which exactly two directories hold one identity, with different versions,
\* the directory with the higher version is still there afterwards, unchanged
\* and loaded, the other is gone, and nothing was asked.
C14_Original ==
    [][(~dryrun /\ LoadStep) =>
          \A a, b \in DOMAIN disk :
             (/\ disk[a].id # "" /\ Entries(disk, disk[a].id) = {a, b}
              /\ disk[a].version > disk[b].version) =>
                /\ a \in DOMAIN disk' /\ disk'[a] = disk[a]
                /\ b \notin DOMAIN disk'
                /\ disk[a].id \in DOMAIN local_monitors'
                /\ local_monitors'[disk[a].id] = disk[a]
                /\ gates' \subseteq gates
      ]_vars

\* C15: when check_version_state has gone through the two maps, an identity
\* that both hold has a gap recorded exactly when its local version is lower
\* than its remote version, the gap naming the local name and both versions;
\* nothing else is recorded.
C15_GapIffOlder ==
    [][(pc = "versions" /\ pc' = "versions_loop") =>
          /\ DOMAIN version_sync_mismatch' \subseteq
                (DOMAIN local_monitors) \cap (DOMAIN remote_monitors)
          /\ \A id \in (DOMAIN local_monitors) \cap (DOMAIN remote_monitors) :
                /\ (id \in DOMAIN version_sync_mismatch') <=>
                      (local_monitors[id].version < remote_monitors[id].version)
                /\ (id \in DOMAIN version_sync_mismatch') =>
                      version_sync_mismatch'[id] =
                         <<local_monitors[id].name, remote_monitors[id].version,
                           local_monitors[id].version>>
      ]_vars

\* C15 witness: the check recorded a gap for one monitor and none for another
\* whose versions are equal.
C15_Witness ==
    /\ pc = "versions_loop"
    /\ version_sync_mismatch # EmptyMap
    /\ \E id \in (DOMAIN local_monitors) \cap (DOMAIN remote_monitors) :
          /\ id \notin DOMAIN version_sync_mismatch
          /\ local_monitors[id].version = remote_monitors[id].version

\* The place of a name in the sorted list of the names.
NameRank(name) ==
    CASE name = NA -> 1
      [] name = NU -> 2
      [] OTHER -> 3

\* C16 as stated: in the loops over the new local monitors, the version gaps
\* and the content differences, the monitor asked about is one whose name
\* comes first, in sorted order, among those the loop has still to visit.
C16_Original ==
    [][\A g \in NewGates :
          g.kind \in {"create", "pull", "push"} =>
             \A key \in todo' :
                NameRank(local_monitors[g.key].name) <= NameRank(local_monitors[key].name)
      ]_vars

\* C17 as stated, for a real run: a load of the local store, whose only
\* removals are calls of remove_monitor, does not end the run on a directory
\* that remove_monitor did not find.
C17_Original ==
    [][(~dryrun /\ LoadStep) =>
          ~(pc' = "crashed" /\ abortReason' = "FileNotFoundError")
      ]_vars

\* What a load of the server leaves in a map that was empty before.
ExactRemote(srv) == [id \in DOMAIN srv |-> normalize(srv[id])]

\* C18 as stated, under LoadSpec: right after remote.load_monitors() the
\* remote map holds exactly the monitors the server holds, and right after
\* local.load_monitors() the local map holds exactly the records of the
\* directories.
C18_Original ==
    /\ pc = "remote_loaded" => remote_monitors = ExactRemote(server)
    /\ pc = "local_loaded" =>
          /\ \A dir \in DOMAIN disk :
                \E id \in DOMAIN local_monitors : local_monitors[id] = disk[dir]
          /\ \A id \in DOMAIN local_monitors :
                \E dir \in DOMAIN disk : local_monitors[id] = disk[dir]

\* C19 as stated, for the store of an accepted version pull in a real run:
\* when the layout held one entry for the identity before the step, it holds
\* one entry for it afterwards, the record just stored.
C19_Original ==
    [][\A g \in NewGates :
          (~dryrun /\ g.kind = "pull" /\ g.accepted
              /\ Cardinality(Entries(disk, g.key)) = 1) =>
             /\ Cardinality(Entries(disk', g.key)) = 1
             /\ \A dir \in Entries(disk', g.key) : disk'[dir] = PullSource(g.key)
      ]_vars

\* C20: no step of a dry run changes a directory of the layout or a monitor
\* of the server, whatever is answered at the confirmations.
C20_DryRunChangesNothing ==
    [][(dryrun /\ passNo' > 0) => (disk' = disk /\ server' = server)]_vars

\* C20 witness: a dry run reached its end after taking in a new remote
\* monitor and after an accepted confirmation of a push, both stores being as
\* they were when it started.
C20_Witness ==
    /\ dryrun
    /\ pc = "done"
    /\ adopted # {}
    /\ \E g \in gates : g.kind = "push" /\ g.prompted /\ g.accepted
    /\ disk = disk0
    /\ server = server0

\* C21: with arg.force every confirmation returns accept and asks nothing,
\* whatever its event.
C21_ForceAcceptsUnprompted ==
    [][force => \A g \in NewGates : g.accepted /\ ~g.prompted]_vars

\* C21 witness: a forced run reached its end after confirmations of two
\* different events, a creation and a push, none asked and all accepted.
C21_Witness ==
    /\ force
    /\ pc = "done"
    /\ \E g \in gates : g.kind = "create" /\ g.event = "general"
    /\ \E g \in gates : g.kind = "push" /\ g.event = "monitor_update"
    /\ \A g \in gates : g.accepted /\ ~g.prompted

\* C22: a confirmation whose event is latched returns accept and asks
\* nothing; one whose event is not latched asks (unless arg.force); the latch
\* of an event is set exactly by a confirmation of that event that asked and
\* was answered "all"; and within a run no latch is ever cleared.
C22_LatchPerEvent ==
    [][/\ \A g \in NewGates :
             /\ g.event \in confirm_all => (g.accepted /\ ~g.prompted)
             /\ (~force /\ g.event \notin confirm_all) => g.prompted
             /\ (g.prompted /\ g.answer = "all") =>
                   confirm_all' = confirm_all \cup {g.event}
             /\ ~(g.prompted /\ g.answer = "all") => confirm_all' = confirm_all
       /\ passNo' = passNo => confirm_all \subseteq confirm_all'
       /\ (passNo' = passNo /\ confirm_all' # confirm_all) => NewGates # {}
      ]_vars

\* C22 witness: in one run a confirmation was answered "all", a later one of
\* the same event was accepted without asking, and one of another event was
\* asked and answered "yes" or "no" without setting a latch.
C22_Witness ==
    /\ ~force
    /\ \E g1, g2, g3 \in gates :
          /\ g1.prompted /\ g1.answer = "all"
          /\ g2.event = g1.event /\ ~g2.prompted /\ g2.accepted
          /\ g3.event # g1.event /\ g3.prompted /\ g3.answer \in {"yes", "no"}
          /\ confirm_all = {g1.event}

Whitespace == {" ", "\t"}

\* C23 as stated, under PathSpec: the name checked was found path-safe
\* exactly when it has none of the forbidden characters and does not start
\* with a whitespace character.
C23_Original ==
    \A s \in todo :
       pc \in {"pathsafe", "not pathsafe"} =>
          ((pc = "pathsafe") <=>
              (/\ \A i \in 1..Len(s) : s[i] \notin unsafe_chars
               /\ ~(Len(s) > 0 /\ s[1] \in Whitespace)))

\* Two directories of a layout that hold records of different identities
\* under one monitor name.
NameCollision(layout) ==
    \E d1, d2 \in DOMAIN layout :
       /\ d1 # d2
       /\ layout[d1].id # layout[d2].id
       /\ layout[d1].name = layout[d2].name

\* C24 as stated: a run that starts on a layout with two records of
\* different identities under one name (and no identity held twice) is a
\* hard error, and neither of the records of the layout is overwritten.
C24_Original ==
    (passNo >= 1 /\ ~dryrun /\ NameCollision(disk0) /\ ~DuplicateIds(disk0)) =>
       /\ Ended => pc = "aborted"
       /\ \A d \in DOMAIN disk0 : \E e \in DOMAIN disk : disk[e] = disk0[d]

\* The layout holds the server's monitors, each under its name, and differs
\* from the server in last_update_time only.
VolatileOnly(d, srv) ==
    /\ \A dir \in DOMAIN d :
          /\ d[dir].id \in DOMAIN srv
          /\ normalize(d[dir]) = normalize(srv[d[dir].id])
          /\ dir = d[dir].name
    /\ RemoteOnly(d, srv) = {}
    /\ \E dir \in DOMAIN d : d[dir].lut # 0

\* C25 as stated, under VolatileSpec: in a run that starts with local records
\* that differ from the remote ones in last_update_time only, no difference
\* is found and no push is offered.
C25_Original ==
    (passNo >= 1 /\ ~dryrun /\ VolatileOnly(disk0, server0)) =>
       /\ monitor_diff = EmptyMap
       /\ \A g \in gates : g.kind # "push"

\* C26 as stated, under PrepareSpec: the payload prepared for a remote create
\* has none of the keys enabled_time, last_update_time, data_sources and
\* owner, and no trigger and no action of it has an id.
C26_Original ==
    pc = "prepared" =>
       \A call \in todo :
          /\ call.payload.keys \cap remove_keys = {}
          /\ \A i \in 1..Len(call.payload.triggers) :
                LET trigger == call.payload.triggers[i] IN
                /\ ~trigger.id
                /\ \A j \in 1..Len(trigger.actions) : ~trigger.actions[j]

\* A step in which a remote call failed.
RemoteCallFailed ==
    /\ abortReason' \in Failures
    /\ abortReason \notin Failures \/ passNo' # passNo

C28_Original ==
    ~dryrun =>
       \A removed_dir \in DOMAIN cleanup :
          \E g \in gates : g.kind = "move" /\ g.key = removed_dir /\ g.accepted

\* C29 as stated, under ReportSpec: the error printed on a duplicate or
\* path-unsafe remote name has the offending name in it.
C29_Original ==
    (pc = "aborted" /\ abortReason \in IntegrityReasons) =>
       \A e \in todo :
          \E i \in 1..Len(e.printed.values) : e.printed.values[i] = e.name

\* C30, under LiveSpec: a run that has started ends (done, or stopped by an
\* error), whatever the stores hold, when every prompt gets a non-empty
\* answer in the end; and a non-empty answer is never asked for again: the
\* item it was given for leaves the loop with it.
C30_PassTerminates ==
    /\ (passNo >= 1) ~> Ended
    /\ [][\A g \in NewGates :
             /\ g.key \in todo /\ g.key \notin todo'
             /\ g.prompted => g.answer \in Answers
         ]_vars

\* A run that came to its end after two prompts or more.
C30_Witness ==
    /\ pc = "done"
    /\ Cardinality({g \in gates : g.prompted}) >= 2
    /\ passNo = 2


\* C31 as stated: the step that stores the remote-only monitors leaves every
\* entry the layout held before it in place and unchanged.
C31_Original ==
    [][(pc = "adopt" /\ pc' # "adopt") =>
          \A dir \in DOMAIN disk : dir \in DOMAIN disk' /\ disk'[dir] = disk[dir]
      ]_vars


\* C32 as stated, for a real run: once the pull of a monitor was accepted,
\* the content stage finds no difference for it and offers no push of it in
\* that run; from the content stage on the local map holds the remote record
\* for it.
C32_Original ==
    ~dryrun =>
       \A g \in gates : (g.kind = "pull" /\ g.accepted) =>
          /\ g.key \notin DOMAIN monitor_diff
          /\ \A h \in gates : ~(h.kind = "push" /\ h.key = g.key)
          /\ pc \in {"content", "content_loop", "done"} =>
                /\ g.key \in DOMAIN local_monitors
                /\ local_monitors[g.key] = remote_monitors[g.key]

\* C33 as stated, under DeleteSpec: a monitor that a run creates on the
\* server, and stores under the identity the server gave it, is one that
\* carried no identity before; and no identity leaves the server in a run.
C33_Original ==
    [][/\ \A key \in created' \ created : local_monitors[key].id = ""
       /\ passNo >= 1 => \A id \in DOMAIN server : id \in DOMAIN server'
      ]_vars


\* The operator accepted, in this run, a creation, pull or push of the
\* monitor that the directory dir holds.
Agreed(dir) ==
    \E g \in gates' :
       /\ g.accepted
       /\ g.kind \in {"create", "pull", "push"}
       /\ \/ g.key = disk[dir].id
          \/ disk[dir].id = "" /\ g.key = PlaceholderId(dir)

\* C34 as stated: a step of a run that is neither a load of the layout
\* (duplicate resolution) nor part of the folder clean-up removes or rewrites
\* the entry of a directory only if the operator accepted an action on the
\* monitor that directory holds.
C34_Original ==
    [][(passNo >= 1 /\ passNo' = passNo /\ ~LoadStep /\ pc # "clean_loop") =>
          \A dir \in DOMAIN disk :
             (dir \notin DOMAIN disk' \/ disk'[dir] # disk[dir]) => Agreed(dir)
      ]_vars


\* C35 as stated, for a real run that found no new remote monitor: at the
\* entry of the version stage and of the content stage both in-memory maps
\* hold the same identities, and no run ends on the lookup of an identity
\* that a map lacks.
C35_Original ==
    (~dryrun /\ adopted = {}) =>
       /\ pc \in {"versions", "content"} =>
             DOMAIN local_monitors = DOMAIN remote_monitors
       /\ pc = "crashed" =>
             abortReason \notin {"KeyError: local_monitors[id]",
                                 "KeyError: remote_monitors[monitor_id]"}


UniqueNames(srv) == \A a, b \in DOMAIN srv : a # b => srv[a].name # srv[b].name

\* C36 as stated: in a run whose remote monitors passed the check of the
\* names, no two monitors of the server have the same name, whatever was
\* created and pushed since.
C36_Original ==
    (/\ passNo >= 1
     /\ pc \in {"adopt", "offer", "offer_loop", "versions", "versions_loop",
                "content", "content_loop", "done", "crashed"}
     /\ UniqueNames(server0)) => UniqueNames(server)


\* The pull of the monitor was declined in this run, and the local content
\* of the monitor differed from the remote one when the run started.
DeclinedStale(g) ==
    /\ g.kind = "pull" /\ ~g.accepted
    /\ \E dir \in DOMAIN disk0 :
          /\ disk0[dir].id = g.key
          /\ DeepDiff(normalize(server0[g.key]), disk0[dir]) # {}

\* C37 as stated, for a real run that found no new remote monitor: a run in
\* which the pull of a monitor whose content differs was declined goes on to
\* offer the push of that monitor: it does not end without having asked
\* about it.
C37_Original ==
    (~dryrun /\ Ended /\ adopted = {}) =>
       \A g \in gates :
          DeclinedStale(g) => \E h \in gates : h.kind = "push" /\ h.key = g.key


\* C38 as stated, for a run that found no new remote monitor: a step in which
\* the creation, the pull or the push of a monitor is accepted leaves the
\* entry of every directory that holds another monitor, and every other
\* monitor of the server, as it was.
C38_Original ==
    [][\A g \in NewGates :
          (g.accepted /\ g.kind \in {"create", "pull", "push"} /\ pc' = pc
              /\ adopted = {}) =>
             /\ \A dir \in DOMAIN disk :
                   (/\ disk[dir].id # g.key
                    /\ ~(disk[dir].id = "" /\ PlaceholderId(dir) = g.key)) =>
                      (dir \in DOMAIN disk' /\ disk'[dir] = disk[dir])
             /\ \A id \in DOMAIN server :
                   id # g.key => (id \in DOMAIN server' /\ server'[id] = server[id])
      ]_vars


\* C39 as stated: a notification is sent at the end of a run only if the run
\* is not a dry run and it created or updated a monitor on the server.
C39_Original ==
    NotifySent => (~dryrun /\ (created # {} \/ pushed # {}))

====
